---- MODULE Spec2Model ----
(***************************************************************************)
(* A model of libiocage's jail configuration (JailConfig), of the mount    *)
(* table derived from it (JailConfigFstab), of the JSON configuration file *)
(* (ConfigJSON) and of the resources that locate it (Resource).            *)
(*                                                                         *)
(* Python values are tagged tuples of strings so that any two of them can  *)
(* be compared: a str is <<"str", s>>, a bool <<"bool", "True">>, None is  *)
(* <<"none">>, a list is <<"list", e1, ..., en>>.                          *)
(* An operation that may raise returns a record with ok = FALSE and the    *)
(* name of the exception in err.                                           *)
(***************************************************************************)
EXTENDS Integers, Sequences, FiniteSets, TLC

VARIABLES
    data,         \* JailConfig.data: the plain store, property name -> value
    tags,         \* the instance attribute JailConfig.tags (_set_tags)
    defaults,     \* the content of the defaults resource (read-only)
    helpersAttr,  \* whether the package exposes the attribute libiocage.helpers
    special_properties, \* JailConfig.special_properties: name -> handler
    rc_conf,      \* jail.rc_conf: the run-control settings of the jail
    backing,      \* the configuration each encoding holds for the jail, if any
    confFile,     \* the file of a ConfigJSON
    zfs,          \* the datasets and pools of the host, and a resource's files
    stored,       \* JailConfigFstab: the underlying set, in iteration order
    fstabFile,    \* the file <jail.path>/fstab
    lastOp,       \* the last call made and its outcome
    nops          \* number of calls made on the configuration so far

vars == <<data, tags, defaults, helpersAttr, special_properties, rc_conf,
          backing, confFile, zfs, stored, fstabFile, lastOp, nops>>

---------------------------------------------------------------------------
(* Python values *)

Str(s) == <<"str", s>>
TrueV == <<"bool", "True">>
FalseV == <<"bool", "False">>
NoneV == <<"none">>
List(l) == <<"list">> \o l
\* JailConfigList: a list whose str() joins the elements with a blank
ConfigList(l) == <<"jclist">> \o l
\* the function object libiocage.helpers.to_string
ToStringFunction == <<"function", "to_string">>
\* the value of an attribute that was never assigned
NoAttr == <<"noattr">>

IsStr(v) == v[1] = "str"
IsBool(v) == v[1] = "bool"
IsNone(v) == v[1] = "none"
IsList(v) == v[1] = "list"
Items(v) == Tail(v)

Ok(v) == [ok |-> TRUE, val |-> v]
Raise(e) == [ok |-> FALSE, err |-> e]

\* bool(value)
Truthy(v) ==
    CASE IsBool(v) -> v = TrueV
      [] IsNone(v) -> FALSE
      [] IsStr(v) -> v[2] # ""
      [] OTHER -> Len(v) > 1

RECURSIVE JoinWith(_, _)
\* sep.join(l)
JoinWith(sep, l) ==
    IF l = <<>> THEN ""
    ELSE IF Len(l) = 1 THEN l[1]
    ELSE l[1] \o sep \o JoinWith(sep, Tail(l))

\* str.split(): the whitespace-separated words of the strings used as inputs
SplitWords(s) ==
    CASE s = "" -> <<>>
      [] s = "-f root" -> <<"-f", "root">>
      [] s = "pool/x pool/y" -> <<"pool/x", "pool/y">>
      [] OTHER -> <<s>>

\* str.split(","): the comma-separated parts of the strings used as inputs
SplitCommas(s) ==
    CASE s = "a,b" -> <<"a", "b">>
      [] OTHER -> <<s>>

RECURSIVE ReprItems(_)
ReprItems(l) ==
    IF l = <<>> THEN ""
    ELSE IF Len(l) = 1 THEN "'" \o l[1] \o "'"
    ELSE "'" \o l[1] \o "', " \o ReprItems(Tail(l))

\* str(value)
PyStr(v) ==
    CASE IsStr(v) -> v[2]
      [] IsBool(v) -> v[2]
      [] IsNone(v) -> "None"
      [] IsList(v) -> "[" \o ReprItems(Items(v)) \o "]"
      [] v[1] = "jclist" -> JoinWith(" ", Items(v))
      [] v[1] = "addresses" -> v[2]
      [] OTHER -> "<" \o v[1] \o ">"

---------------------------------------------------------------------------
(* libiocage.lib.helpers *)

\* helpers.parse_user_input: boolean-like and none-like input to bool / None
parse_user_input(v) ==
    IF ~IsStr(v) THEN v
    ELSE CASE v[2] \in {"yes", "on", "true"} -> TrueV
           [] v[2] \in {"no", "off", "false"} -> FalseV
           [] v[2] \in {"none", "-", ""} -> NoneV
           [] OTHER -> v

\* helpers.to_string(value, true=, false=, none=)
to_string(v, true, false, none) ==
    CASE IsBool(v) -> IF v = TrueV THEN true ELSE false
      [] IsNone(v) -> none
      [] IsStr(v) -> v[2]
      [] OTHER -> JoinWith(" ", Items(v))

\* JailConfigAddresses(value, skip_on_error=...): the handler of an address
\* list, whose str() is the list it accepted; a value that is not a list of
\* interface|address pairs is rejected, or dropped when skip_on_error
ValidAddresses == {"em0|accept_rtadv", "em1|accept_rtadv", "em0|fe80::1",
                   "em1|fe80::2"}
JailConfigAddresses(value, skip_on_error) ==
    IF IsNone(value) THEN Ok(<<"addresses", "">>)
    ELSE IF IsStr(value) /\ value[2] \in ValidAddresses
    THEN Ok(<<"addresses", value[2]>>)
    ELSE IF skip_on_error THEN Ok(<<"addresses", "">>)
    ELSE Raise("InvalidJailConfigAddress")

\* "accept_rtadv" in s, for the strings used as inputs
contains_accept_rtadv(s) == s \in {"em0|accept_rtadv", "em1|accept_rtadv"}

\* the names used as identities, and those helpers.validate_name accepts
ValidNames == {"web01", "web02"}
validate_name(s) == s \in ValidNames

\* uuid.UUID(s) followed by str(): the canonical form, for the forms it accepts
CanonicalUUID == "4f3d2b1a-0000-0000-0000-000000000000"
UUIDForms == {CanonicalUUID, "{4F3D2B1A-0000-0000-0000-000000000000}"}
ParseUUID(s) == IF s \in UUIDForms THEN Ok(CanonicalUUID) ELSE Raise("ValueError")

---------------------------------------------------------------------------
(* JailConfig: reading.  A configuration c is [data |-> ..., tags |-> ...] *)

OkFrom(v, t) == [ok |-> TRUE, val |-> v, tier |-> t]

\* the properties with a _get_<key> method, and those with a _set_<key> method
Getters == {"type", "basejail", "clonejail", "jail_zfs_dataset", "jail_zfs",
            "cloned_release", "basejail_type", "login_flags", "ip6_addr"}
Setters == {"name", "type", "basejail", "clonejail", "jail_zfs_dataset",
            "jail_zfs", "login_flags", "tags", "ip6_addr"}

\* JailConfig.stringify: evaluates the attribute libiocage.helpers.to_string
\* (the function itself, it is not called) when enabled is True
stringify(value, enabled) ==
    IF enabled
    THEN IF helpersAttr THEN Ok(ToStringFunction) ELSE Raise("AttributeError")
    ELSE Ok(value)

\* JailConfigDefaults.__getitem__ on the defaults resource
defaults_getitem(key) ==
    IF key \in DOMAIN defaults
    THEN OkFrom(defaults[key], "default")
    ELSE Raise("PropertyNotFound")

RECURSIVE getitem(_, _, _)

get_basejail(c) ==
    IF "basejail" \in DOMAIN c.data
    THEN Ok(parse_user_input(c.data["basejail"]))
    ELSE Raise("KeyError")

get_clonejail(c) ==
    IF "clonejail" \in DOMAIN c.data
    THEN Ok(parse_user_input(c.data["clonejail"]))
    ELSE Raise("KeyError")

\* the body of _get_type, b and cl being self["basejail"], self["clonejail"]
type_of(b, cl) ==
    IF ~b.ok THEN Raise(b.err)
    ELSE IF Truthy(b.val) THEN Ok(Str("basejail"))
    ELSE IF ~cl.ok THEN Raise(cl.err)
    ELSE IF Truthy(cl.val) THEN Ok(Str("clonejail"))
    ELSE Ok(Str("jail"))

get_type(c) ==
    type_of(getitem(c, "basejail", FALSE), getitem(c, "clonejail", FALSE))

get_jail_zfs_dataset(c) ==
    IF "jail_zfs_dataset" \in DOMAIN c.data
    THEN Ok(List(SplitWords(c.data["jail_zfs_dataset"][2])))
    ELSE Ok(List(<<>>))

\* the test of _default_jail_zfs, ds being self["jail_zfs_dataset"]
has_datasets(ds) == IF ds.ok /\ Len(Items(ds.val)) > 0 THEN TrueV ELSE FalseV

default_jail_zfs(c) == has_datasets(getitem(c, "jail_zfs_dataset", FALSE))

\* the check of _get_jail_zfs once enabled is known
jail_zfs_checked(enabled, ds) ==
    IF Truthy(enabled) THEN Ok(enabled)
    ELSE IF ~ds.ok THEN Raise(ds.err)
    ELSE IF Len(Items(ds.val)) > 0 THEN Raise("JailConigZFSIsNotAllowed")
    ELSE Ok(enabled)

get_jail_zfs(c) ==
    jail_zfs_checked(IF "jail_zfs" \in DOMAIN c.data
                     THEN parse_user_input(c.data["jail_zfs"])
                     ELSE default_jail_zfs(c),
                     getitem(c, "jail_zfs_dataset", FALSE))

\* return <a lookup>: its value, or the exception it raised
Returned(r) == IF r.ok THEN Ok(r.val) ELSE Raise(r.err)

get_cloned_release(c) ==
    IF "cloned_release" \in DOMAIN c.data
    THEN Ok(c.data["cloned_release"])
    ELSE Returned(getitem(c, "release", FALSE))

\* the except branch of _get_basejail_type, b being self["basejail"]
default_basejail_type(b) ==
    IF b.ok /\ Truthy(b.val) THEN Ok(Str("nullfs")) ELSE Ok(NoneV)

get_basejail_type(c) ==
    IF "basejail_type" \in DOMAIN c.data
    THEN Ok(c.data["basejail_type"])
    ELSE default_basejail_type(getitem(c, "basejail", FALSE))

get_login_flags(c) ==
    IF "login_flags" \in DOMAIN c.data
    THEN Ok(ConfigList(SplitWords(c.data["login_flags"][2])))
    ELSE Ok(ConfigList(<<"-f", "root">>))

get_ip6_addr(c) ==
    IF "ip6_addr" \in DOMAIN c.special_properties
    THEN Ok(c.special_properties["ip6_addr"])
    ELSE Ok(NoneV)

\* the call get_method() of the method _get_<key>
get_method(c, key) ==
    CASE key = "type" -> get_type(c)
      [] key = "basejail" -> get_basejail(c)
      [] key = "clonejail" -> get_clonejail(c)
      [] key = "jail_zfs_dataset" -> get_jail_zfs_dataset(c)
      [] key = "jail_zfs" -> get_jail_zfs(c)
      [] key = "cloned_release" -> get_cloned_release(c)
      [] key = "basejail_type" -> get_basejail_type(c)
      [] key = "login_flags" -> get_login_flags(c)
      [] key = "ip6_addr" -> get_ip6_addr(c)
      [] OTHER -> Raise("AttributeError")

\* JailConfig.__getitem_user: instance attribute, then _get_<key>, then data;
\* each tier is left on any exception
first_tier(attr, mapped, plain) ==
    IF attr.ok THEN OkFrom(attr.val, "attribute")
    ELSE IF mapped.ok THEN OkFrom(mapped.val, "getter")
    ELSE IF plain.ok THEN OkFrom(plain.val, "plain")
    ELSE Raise("KeyError")

\* return self.stringify(<a tier's value>, string)
stringified(got, string) == IF got.ok THEN stringify(got.val, string) ELSE got

getitem_user(c, key, string) ==
    first_tier(IF key = "tags" /\ c.tags # NoAttr
               THEN stringify(c.tags, string)
               ELSE Raise("AttributeError"),
               stringified(IF key \in Getters THEN get_method(c, key)
                           ELSE Raise("AttributeError"), string),
               IF key \in DOMAIN c.data
               THEN stringify(c.data[key], string)
               ELSE Raise("KeyError"))

\* the except branch of JailConfig.__getitem__: the defaults
or_default(r, key) == IF r.ok THEN r ELSE defaults_getitem(key)

\* JailConfig.__getitem__: the user tiers, then the defaults
getitem(c, key, string) == or_default(getitem_user(c, key, string), key)

\* JailConfig.get_string
get_string(c, key) == getitem(c, key, TRUE)

\* the names for which dict.__dir__(self) holds a _default_<name> method
DefaultHandlers == {"basejail", "clonejail", "jail_zfs"}

\* JailConfig.all_properties, as a set (the list is made from a set)
all_properties(c) == DefaultHandlers \cup DOMAIN c.data

---------------------------------------------------------------------------
(* JailConfig: writing.  A setter returns the configuration it leaves, and *)
(* the exception it raised if it did.                                      *)

Done(c) == [ok |-> TRUE, c |-> c]
Failed(e, c) == [ok |-> FALSE, err |-> e, c |-> c]

Put(d, key, v) == [k \in DOMAIN d \cup {key} |-> IF k = key THEN v ELSE d[k]]
Del(d, key) == [k \in DOMAIN d \ {key} |-> d[k]]
\* self.data[key] = v
WithData(c, key, v) == [c EXCEPT !.data = Put(c.data, key, v)]

\* the keyword arguments of a call: a set of <<name, value>>
NoKwargs == {}
SkipOnError(b) == {<<"skip_on_error", b>>}

RECURSIVE setitem(_, _, _, _)

\* JailConfig._set_name: self.id raises AttributeError (there is no such
\* attribute), which the try block swallows; re.findall needs a str
set_name(c, name) ==
    IF ~IsStr(name) THEN Failed("TypeError", c)
    ELSE IF validate_name(name[2]) THEN setitem(c, "id", name, NoKwargs)
    ELSE LET u == ParseUUID(name[2])
         IN  IF u.ok THEN setitem(c, "id", Str(u.val), NoKwargs)
             ELSE Failed("InvalidJailName", c)

\* the body of _set_basejail, legacy being self["legacy"]
basejail_as(c, value, legacy) ==
    IF ~legacy.ok THEN Failed(legacy.err, c)
    ELSE IF Truthy(legacy.val)
    THEN Done(WithData(c, "basejail", Str(to_string(value, "on", "off", "-"))))
    ELSE Done(WithData(c, "basejail", Str(to_string(value, "yes", "no", "-"))))

set_basejail(c, value) == basejail_as(c, value, getitem(c, "legacy", FALSE))

set_clonejail(c, value) ==
    Done(WithData(c, "clonejail", Str(to_string(value, "on", "off", "-"))))

\* the next statement self[key] = value, unless the one before (r) raised
then_setitem(r, key, value) ==
    IF ~r.ok THEN r ELSE setitem(r.c, key, value, NoKwargs)

\* the next statement self.data[key] = value, unless the one before raised
then_data(r, key, value) ==
    IF ~r.ok THEN r ELSE Done(WithData(r.c, key, value))

set_type(c, value) ==
    IF value = Str("basejail")
    THEN then_data(then_setitem(setitem(c, "basejail", TrueV, NoKwargs),
                                "clonejail", FalseV),
                   "type", Str("jail"))
    ELSE IF value = Str("clonejail")
    THEN then_data(then_setitem(setitem(c, "basejail", FalseV, NoKwargs),
                                "clonejail", TrueV),
                   "type", Str("jail"))
    ELSE Done(WithData(c, "type", value))

set_jail_zfs_dataset(c, value) ==
    IF IsStr(value) THEN Done(WithData(c, "jail_zfs_dataset", value))
    ELSE IF IsList(value)
    THEN Done(WithData(c, "jail_zfs_dataset", Str(JoinWith(" ", Items(value)))))
    ELSE Failed("TypeError", c)

set_jail_zfs(c, value) ==
    IF IsNone(value) \/ value = Str("")
    THEN IF "jail_zfs" \in DOMAIN c.data
         THEN Done([c EXCEPT !.data = Del(c.data, "jail_zfs")])
         ELSE Failed("KeyError", c)
    ELSE Done(WithData(c, "jail_zfs", Str(to_string(value, "on", "off", "-"))))

set_login_flags(c, value) ==
    IF IsNone(value) THEN Done([c EXCEPT !.data = Del(c.data, "login_flags")])
    ELSE IF IsList(value)
    THEN Done(WithData(c, "login_flags", Str(JoinWith(" ", Items(value)))))
    ELSE IF IsStr(value) THEN Done(WithData(c, "login_flags", value))
    ELSE Failed("InvalidJailConfigValue", c)

\* JailConfig._skip_on_error: a missing keyword raises KeyError, which the
\* except AttributeError clause does not catch
resolve_skip_on_error(kwargs) ==
    IF \E p \in kwargs : p[1] = "skip_on_error"
    THEN Ok((CHOOSE p \in kwargs : p[1] = "skip_on_error")[2] = TRUE)
    ELSE Raise("KeyError")

\* the end of _set_ip6_addr, ip6_addr being the handler just constructed
ip6_addr_attached(c, value, ip6_addr) ==
    IF ~ip6_addr.ok THEN Failed(ip6_addr.err, c)
    ELSE Done([c EXCEPT
                 !.special_properties = Put(@, "ip6_addr", ip6_addr.val),
                 !.data = Put(@, "ip6_addr", Str(PyStr(ip6_addr.val))),
                 !.rc_conf = Put(@, "rtsold_enable",
                                 IF contains_accept_rtadv(PyStr(value))
                                 THEN TrueV ELSE FalseV)])

\* _set_ip6_addr once the keyword skip_on_error is resolved
ip6_addr_with(c, value, skip) ==
    IF ~skip.ok THEN Failed(skip.err, c)
    ELSE ip6_addr_attached(c, value, JailConfigAddresses(value, skip.val))

\* JailConfig._set_ip6_addr, for a configuration that belongs to a jail
set_ip6_addr(c, value, kwargs) ==
    ip6_addr_with(c, value, resolve_skip_on_error(kwargs))

set_tags(c, value) ==
    IF IsStr(value) THEN Done([c EXCEPT !.tags = List(SplitCommas(value[2]))])
    ELSE IF IsList(value) THEN Done([c EXCEPT !.tags = <<"set">> \o Items(value)])
    ELSE Failed("InvalidJailConfigValue", c)

\* the call setter_method(parsed_value, **kwargs) of the method _set_<key>;
\* only _set_ip6_addr reads the keyword arguments
setter_method(c, key, value, kwargs) ==
    CASE key = "name" -> set_name(c, value)
      [] key = "type" -> set_type(c, value)
      [] key = "basejail" -> set_basejail(c, value)
      [] key = "clonejail" -> set_clonejail(c, value)
      [] key = "jail_zfs_dataset" -> set_jail_zfs_dataset(c, value)
      [] key = "jail_zfs" -> set_jail_zfs(c, value)
      [] key = "login_flags" -> set_login_flags(c, value)
      [] key = "tags" -> set_tags(c, value)
      [] key = "ip6_addr" -> set_ip6_addr(c, value, kwargs)

\* JailConfig.__setitem__
setitem(c, key, value, kwargs) ==
    LET parsed_value == parse_user_input(value)
    IN  IF key \in Setters
        THEN setter_method(c, key, parsed_value, kwargs)
        ELSE Done(WithData(c, key, parsed_value))

\* str(self.__getitem_user(key)).__hash__(), None when the lookup raises
hash_of(r) == IF r.ok THEN <<"hash", PyStr(r.val)>> ELSE NoneV

UserHash(c, key) == hash_of(getitem_user(c, key, FALSE))

\* the end of JailConfig.set, r being the outcome of self.__setitem__
set_returns(hash_before, r, key) ==
    IF ~r.ok THEN [ok |-> FALSE, err |-> r.err, c |-> r.c]
    ELSE [ok |-> TRUE, c |-> r.c, ret |-> hash_before # UserHash(r.c, key)]

\* JailConfig.set: the configuration left, and the value returned
set(c, key, value, kwargs) ==
    set_returns(UserHash(c, key), setitem(c, key, value, kwargs), key)

IdAliases == {"id", "name", "uuid"}

\* a mapping (dict) is the sequence of its <<key, value>> items, in order
Keys(m) == {m[i][1] : i \in DOMAIN m}
Lookup(m, key) == m[CHOOSE i \in DOMAIN m : m[i][1] = key][2]

RECURSIVE clone_from(_, _, _, _)
\* the loop of JailConfig.clone, current_id being read once before it
\* the rest of the loop, r being the outcome of the assignment before
clone_rest(r, items, current_id, skip_on_error) ==
    IF ~r.ok THEN r ELSE clone_from(r.c, items, current_id, skip_on_error)

clone_from(c, items, current_id, skip_on_error) ==
    IF items = <<>> THEN Done(c)
    ELSE clone_rest(setitem(c, items[1][1],
                            IF items[1][1] \in IdAliases /\ ~IsNone(current_id)
                            THEN current_id ELSE items[1][2],
                            SkipOnError(skip_on_error)),
                    Tail(items), current_id, skip_on_error)

\* the loop of JailConfig.clone, current_id being self["id"]
clone_with(c, m, current_id, skip_on_error) ==
    IF ~current_id.ok THEN Failed(current_id.err, c)
    ELSE clone_from(c, m, current_id.val, skip_on_error)

\* JailConfig.clone
clone(c, m, skip_on_error) ==
    clone_with(c, m, getitem(c, "id", FALSE), skip_on_error)

\* the first of id, name, uuid that is a key of the mapping, if any
FirstAlias(m) ==
    IF "id" \in Keys(m) THEN <<"id">>
    ELSE IF "name" \in Keys(m) THEN <<"name">>
    ELSE IF "uuid" \in Keys(m) THEN <<"uuid">>
    ELSE <<>>

EmptyData == [k \in {} |-> NoneV]

\* JailConfig.__init__(data=m)
\* self["name"] = data[prop] for the first alias found, if the statement
\* before (r) did not raise
then_name(r, m) ==
    IF ~r.ok \/ FirstAlias(m) = <<>> THEN r
    ELSE setitem(r.c, "name", Lookup(m, FirstAlias(m)[1]), NoKwargs)

\* self.clone(data), if the statement before (r) did not raise
then_clone(r, m) == IF ~r.ok THEN r ELSE clone(r.c, m, FALSE)

construct(m) ==
    then_clone(
        then_setitem(
            then_name(
                then_setitem(
                    setitem([data |-> EmptyData, tags |-> NoAttr,
                             special_properties |-> EmptyData,
                             rc_conf |-> EmptyData],
                            "legacy", FalseV, NoKwargs),
                    "id", NoneV),
                m),
            "legacy",
            IF "legacy" \in Keys(m) /\ Lookup(m, "legacy") = TrueV
            THEN TrueV ELSE FalseV),
        m)

---------------------------------------------------------------------------
(* JailConfig.read.  Each encoding holds <<>> when it does not exist for    *)
(* the jail, and <<m>> when it holds the mapping m.                         *)

\* JailConfigJSON.read, JailConfigLegacy.read, JailConfigZFS.read: the
\* mapping the encoding holds is applied to the configuration
load(c, held) == clone(c, held[1], TRUE)

\* the statements after a reader: self["legacy"] = ... and the return
loaded_as(r, legacy, type) ==
    IF ~r.ok THEN [ok |-> FALSE, err |-> r.err, c |-> r.c]
    ELSE [ok |-> TRUE, c |-> then_setitem(r, "legacy", legacy).c,
          ret |-> Str(type)]

\* read as it would be if the legacy file were probed before the JSON file
read_legacy_first(c, b) ==
    IF b.ucl # <<>> THEN loaded_as(load(c, b.ucl), TrueV, "ucl")
    ELSE IF b.json # <<>> THEN loaded_as(load(c, b.json), FalseV, "json")
    ELSE IF b.zfs # <<>> THEN loaded_as(load(c, b.zfs), TrueV, "zfs")
    ELSE [ok |-> TRUE, c |-> c, ret |-> NoneV]

\* JailConfig.read, b being what the encodings hold
read(c, b) ==
    IF b.json # <<>> THEN loaded_as(load(c, b.json), FalseV, "json")
    ELSE IF b.ucl # <<>> THEN loaded_as(load(c, b.ucl), TrueV, "ucl")
    ELSE IF b.zfs # <<>> THEN loaded_as(load(c, b.zfs), TrueV, "zfs")
    ELSE [ok |-> TRUE, c |-> c, ret |-> NoneV]

---------------------------------------------------------------------------
(* JailConfigFstab.  A line of text is the sequence of its atoms: the      *)
(* characters "#", " " and "\t", and words, which hold none of them.  A    *)
(* text is the sequence of the lines that split("\n") gives.  The comment  *)
(* of an entry is <<>> for None and <<atoms>> for a string.                *)

AUTO_COMMENT_IDENTIFIER == <<"iocage-auto">>
Blank == {" ", "\t"}
EmptyLine == <<>>
NoComment == <<>>

\* the collaborators: jail.path, host.datasets.releases.mountpoint and
\* helpers.get_basedir_list(distribution_name)
JailPath == "/jail"
ReleaseMount == "/rel"
BaseDirs == <<"bin", "lib">>

FstabLine(source, destination, type, options, dump, passnum, comment) ==
    [source |-> source, destination |-> destination, type |-> type,
     options |-> options, dump |-> dump, passnum |-> passnum,
     comment |-> comment]

Range(q) == {q[i] : i \in DOMAIN q}

RECURSIVE LStrip(_, _)
LStrip(q, chars) ==
    IF q # <<>> /\ Head(q) \in chars THEN LStrip(Tail(q), chars) ELSE q

RECURSIVE RStrip(_, _)
RStrip(q, chars) ==
    IF q # <<>> /\ q[Len(q)] \in chars
    THEN RStrip(SubSeq(q, 1, Len(q) - 1), chars) ELSE q

\* str.strip(chars)
Strip(q, chars) == RStrip(LStrip(q, chars), chars)

RECURSIVE SplitFrom(_, _)
\* str.split(): the maximal runs of atoms that are not blank; word is the
\* run being read, <<>> between two runs
SplitFrom(q, word) ==
    IF q = <<>> THEN word
    ELSE IF Head(q) \in Blank THEN word \o SplitFrom(Tail(q), <<>>)
    ELSE IF word = <<>> THEN SplitFrom(Tail(q), <<Head(q)>>)
    ELSE SplitFrom(Tail(q), <<word[1] \o Head(q)>>)

Split(q) == SplitFrom(q, <<>>)

\* line.split("#", maxsplit=1) and comment.strip("# ")
HashAt(line) ==
    IF "#" \in Range(line)
    THEN CHOOSE i \in DOMAIN line : line[i] = "#" /\ \A j \in 1..(i - 1) : line[j] # "#"
    ELSE 0

\* the comment as it would be without comment.strip("# ")
CommentOf_unstripped(line) ==
    IF HashAt(line) = 0 THEN NoComment
    ELSE <<SubSeq(line, HashAt(line) + 1, Len(line))>>

CommentOf(line) ==
    IF HashAt(line) = 0 THEN NoComment
    ELSE <<Strip(SubSeq(line, HashAt(line) + 1, Len(line)), {"#", " "})>>

BodyOf(line) ==
    IF HashAt(line) = 0 THEN line ELSE SubSeq(line, 1, HashAt(line) - 1)

\* _line_to_string
line_to_string(line) ==
    <<line.source, "\t", line.destination, "\t", line.type, "\t",
      line.options, "\t", line.dump, "\t", line.passnum>>
    \o (IF line.comment # NoComment THEN <<" ", "#", " ">> \o line.comment[1] ELSE <<>>)

\* the body of basejail_lines, given self.jail.config["basejail"],
\* ["basejail_type"] and the release the sources are taken from
release_lines(basejail, basejail_type, release) ==
    IF ~basejail.ok THEN Raise(basejail.err)
    ELSE IF ~basejail_type.ok THEN Raise(basejail_type.err)
    ELSE IF ~(Truthy(basejail.val) /\ basejail_type.val = Str("nullfs"))
    THEN Ok(<<>>)
    ELSE IF BaseDirs = <<>> THEN Ok(<<>>)
    ELSE IF ~release.ok THEN Raise(release.err)
    ELSE Ok([i \in DOMAIN BaseDirs |->
               FstabLine(ReleaseMount \o "/" \o PyStr(release.val)
                             \o "/root/" \o BaseDirs[i],
                         JailPath \o "/root/" \o BaseDirs[i],
                         "nullfs", "ro", "0", "0", <<<<"iocage-auto">>>>)])

\* basejail_lines as it would be if the release were taken from the property
\* release instead of cloned_release
basejail_lines_release(c) ==
    release_lines(getitem(c, "basejail", FALSE),
                  getitem(c, "basejail_type", FALSE),
                  getitem(c, "release", FALSE))

\* JailConfigFstab.basejail_lines
basejail_lines(c) ==
    release_lines(getitem(c, "basejail", FALSE),
                  getitem(c, "basejail_type", FALSE),
                  getitem(c, "cloned_release", FALSE))

\* the stored lines, then the basejail lines b
stored_then(st, b) == IF b.ok THEN Ok(st \o b.val) ELSE b

\* JailConfigFstab.__iter__: the stored lines, then the basejail lines
iter(st, c) == stored_then(st, basejail_lines(c))

\* the loop of __contains__ over the iteration it: it returns in its first
\* pass
first_matches(it, value) ==
    IF ~it.ok THEN it
    ELSE IF it.val = <<>> THEN Ok(FALSE)
    ELSE Ok(value.destination = it.val[1].destination)

\* JailConfigFstab.__contains__: decided by the first entry of the iteration
contains(st, c, value) == first_matches(iter(st, c), value)

InsertAt(q, p, e) == SubSeq(q, 1, p) \o <<e>> \o SubSeq(q, p + 1, Len(q))

\* set.add(self, line): lines hash by destination and compare as whole dicts,
\* so only an equal line is already present; the place of a new line in the
\* iteration order depends on the hash of its destination
set_add(st, line) ==
    IF line \in Range(st) THEN {st}
    ELSE {InsertAt(st, p, line) : p \in 0..Len(st)}

\* "\n".join(map(_line_to_string, list(self))) + "\n", as the lines that
\* split("\n") gives
joined(it) ==
    IF ~it.ok THEN it
    ELSE Ok((IF it.val = <<>> THEN <<EmptyLine>>
             ELSE [i \in DOMAIN it.val |-> line_to_string(it.val[i])])
            \o <<EmptyLine>>)

\* JailConfigFstab.__str__
fstab_str(st, c) == joined(iter(st, c))

\* what parse_lines has done so far: the set it filled, what it logged, and
\* the exception that stopped it, if any
ParseState(st, events) == [ok |-> TRUE, st |-> st, events |-> events]
ParseFailed(st, events, e) == [ok |-> FALSE, st |-> st, events |-> events, err |-> e]

\* the end of the loop body: the duplicate warning when new_line in self
\* (found), then self.add_line(new_line)
add_parsed(acc, new_line, found, i) ==
    IF ~found.ok THEN {ParseFailed(acc.st, acc.events, found.err)}
    ELSE {ParseState(st, IF found.val
                         THEN acc.events \cup {[kind |-> "duplicate", line |-> i]}
                         ELSE acc.events) :
              st \in set_add(acc.st, new_line)}

\* the loop body once the line is split into its fragments
parse_fragments(acc, fragments, comment, i, c) ==
    IF fragments = <<>> THEN {acc}
    ELSE IF Len(fragments) # 6
    THEN {ParseState(acc.st, acc.events \cup {[kind |-> "invalid", line |-> i]})}
    ELSE add_parsed(acc,
                    FstabLine(fragments[1], fragments[2], fragments[3],
                              fragments[4], fragments[5], fragments[6], comment),
                    contains(acc.st, c,
                             FstabLine(fragments[1], fragments[2], fragments[3],
                                       fragments[4], fragments[5], fragments[6],
                                       comment)),
                    i)

\* the body of the loop as it would be if lines with the reserved comment
\* were never skipped
parse_line_keep_auto(acc, line, i, c, ignore_auto_created) ==
    parse_fragments(acc, Split(BodyOf(line)), CommentOf(line), i, c)

\* the body of the loop of parse_lines, for line number i
parse_line(acc, line, i, c, ignore_auto_created) ==
    IF /\ HashAt(line) > 0
       /\ ignore_auto_created
       /\ CommentOf(line)[1] = AUTO_COMMENT_IDENTIFIER
    THEN {acc}
    ELSE parse_fragments(acc, Split(BodyOf(line)), CommentOf(line), i, c)

RECURSIVE parse_from(_, _, _, _, _)
parse_from(text, i, acc, c, ignore_auto_created) ==
    IF i > Len(text) \/ ~acc.ok THEN {acc}
    ELSE UNION {parse_from(text, i + 1, a, c, ignore_auto_created) :
                    a \in parse_line(acc, text[i], i, c, ignore_auto_created)}

\* JailConfigFstab.parse_lines: the outcomes the iteration order allows
parse_lines(text, c, ignore_auto_created) ==
    parse_from(text, 1, ParseState(<<>>, {}), c, ignore_auto_created)

---------------------------------------------------------------------------
(* ConfigJSON.  The content of the file is the sequence of its atoms: the   *)
(* punctuation of JSON, the indentation, line ends, and the text of each    *)
(* string between its quotes.  A mapping (dict) is the sequence of its      *)
(* <<key, value>> items in insertion order.                                 *)

Quote == "\""
Indent == "    "

\* the escaping of the JSON encoder and the decoder's inverse, for the
\* strings used as inputs
escape(text) == IF text = "a\"b" THEN "a\\\"b" ELSE text
unescape(text) == IF text = "a\\\"b" THEN "a\"b" ELSE text

\* the alphabetical order of the keys used as inputs
KeyRank(key) == CASE key = "a" -> 1 [] key = "b" -> 2 [] key = "c" -> 3

RECURSIVE sort_keys(_)
\* the items sorted by key (keys are distinct)
sort_keys(items) ==
    IF items = <<>> THEN <<>>
    ELSE LET first == CHOOSE i \in DOMAIN items :
                         \A j \in DOMAIN items : KeyRank(items[i][1]) <= KeyRank(items[j][1])
         IN  <<items[first]>>
             \o sort_keys(SubSeq(items, 1, first - 1)
                          \o SubSeq(items, first + 1, Len(items)))

RECURSIVE dump_members(_)
\* the members of an object, indent=4: one per line, separated by commas
dump_members(items) ==
    <<Indent, Quote, items[1][1], Quote, ": ", Quote, escape(items[1][2]), Quote>>
    \o (IF Len(items) = 1 THEN <<>>
        ELSE <<",", "\n">> \o dump_members(Tail(items)))

\* json.dumps as it would be without sort_keys=True: insertion order
dumps_insertion_order(output_data) ==
    IF output_data = <<>> THEN <<"{", "}">>
    ELSE <<"{", "\n">> \o dump_members(output_data) \o <<"\n", "}">>

\* json.dumps(output_data, sort_keys=True, indent=4) of a dict of strings
dumps(output_data) ==
    IF output_data = <<>> THEN <<"{", "}">>
    ELSE <<"{", "\n">> \o dump_members(sort_keys(output_data)) \o <<"\n", "}">>

\* to_json as it would be if to_string were called without none="none"
to_json_default_none(mapping) ==
    dumps([i \in DOMAIN mapping |->
             <<mapping[i][1], to_string(mapping[i][2], "yes", "no", "-")>>])

\* to_json
to_json(mapping) ==
    dumps([i \in DOMAIN mapping |->
             <<mapping[i][1], to_string(mapping[i][2], "yes", "no", "none")>>])

\* what json.load returns: the value and its Python type
Loaded(v, type) == [ok |-> TRUE, val |-> v, type |-> type]

RECURSIVE load_members(_, _)
\* the decoder after "{": a member, then a comma and the next member, or the
\* end of the object and of the input
load_members(q, members) ==
    IF ~(/\ Len(q) >= 10
         /\ q[1] = Indent /\ q[2] = Quote /\ q[4] = Quote /\ q[5] = ": "
         /\ q[6] = Quote /\ q[8] = Quote)
    THEN Raise("JSONDecodeError")
    ELSE IF SubSeq(q, 9, Len(q)) = <<"\n", "}">>
    THEN Loaded(members \o <<<<q[3], Str(unescape(q[7]))>>>>, "dict")
    ELSE IF q[9] = "," /\ q[10] = "\n"
    THEN load_members(SubSeq(q, 11, Len(q)),
                      members \o <<<<q[3], Str(unescape(q[7]))>>>>)
    ELSE Raise("JSONDecodeError")

\* json.load(conf): the value of the document, a dict for an object and a
\* list for an array
json_load(content) ==
    IF content = <<"{", "}">> THEN Loaded(<<>>, "dict")
    ELSE IF content = <<"[", "]">> THEN Loaded(List(<<>>), "list")
    ELSE IF Len(content) > 2 /\ content[1] = "{" /\ content[2] = "\n"
    THEN load_members(SubSeq(content, 3, Len(content)), <<>>)
    ELSE Raise("JSONDecodeError")

\* the body of the with statement of read: return json.load(conf)
loaded(file) ==
    IF ~file.exists THEN Raise("FileNotFoundError") ELSE json_load(file.content)

\* the try statement of read: any exception gives {}
or_empty(r) == IF r.ok THEN r ELSE Loaded(<<>>, "dict")

\* ConfigJSON.read
config_read(file) == or_empty(loaded(file))

\* open(self.file, "w"): the file is created or emptied, position 0
open_w(file) == [exists |-> TRUE, content |-> <<>>, position |-> 0]

\* conf.write(text): at the position, over what is there
file_write(f, text) ==
    [f EXCEPT !.content = SubSeq(f.content, 1, f.position) \o text
                          \o SubSeq(f.content, f.position + Len(text) + 1,
                                    Len(f.content)),
              !.position = f.position + Len(text)]

\* conf.truncate(): the file ends at the position
truncate(f) == [f EXCEPT !.content = SubSeq(f.content, 1, f.position)]

\* leaving the with statement
closed(f) == [exists |-> f.exists, content |-> f.content]

\* ConfigJSON.write
config_write(file, mapping) ==
    closed(truncate(file_write(open_w(file), to_json(mapping))))

\* a write that the process does not finish: the file was emptied by open
\* and holds the first n atoms of the text
write_interrupted(file, mapping, n) ==
    closed(file_write(open_w(file), SubSeq(to_json(mapping), 1, n)))

---------------------------------------------------------------------------
(* Resource.  The storage of the host (the variable zfs) is its pools, its *)
(* datasets, the mounted ones, and, for the dataset of the resource, the    *)
(* files under its mountpoint and the names of its properties.  A dataset   *)
(* name is the sequence of its path segments; a property name is the pair   *)
(* of its prefix (up to the colon) and the rest.  A Python int is           *)
(* <<"int", n>>.                                                            *)

PyInt(n) == <<"int", n>>

ZFS_PROPERTY_PREFIX == "org.freebsd.iocage:"
CONFIG_TYPES == <<"json", "legacy", "zfs">>
DEFAULT_JSON_FILE == "config.json"
DEFAULT_LEGACY_FILE == "config"

\* CONFIG_TYPES.index(value): the position of an element equal to value, and
\* ValueError when there is none (an int equals no element)
CONFIG_TYPES_index(value) ==
    IF IsStr(value) /\ \E i \in DOMAIN CONFIG_TYPES : CONFIG_TYPES[i] = value[2]
    THEN Ok(PyInt((CHOOSE i \in DOMAIN CONFIG_TYPES : CONFIG_TYPES[i] = value[2]) - 1))
    ELSE Raise("ValueError")

\* the setter of Resource.config_type, given the value assigned
set_config_type(self, value) ==
    IF CONFIG_TYPES_index(value).ok
    THEN Ok([self EXCEPT !._config_type = CONFIG_TYPES_index(value).val])
    ELSE Raise("ValueError")

\* the last statement of Resource.__init__: the index of the argument is
\* assigned through the setter
assign_config_type(self, r) == IF r.ok THEN set_config_type(self, r.val) ELSE r

\* Resource.__init__(config_type, config_file)
Resource_init(config_type, config_file) ==
    assign_config_type([_config_file |-> config_file, _config_type |-> NoneV],
                       CONFIG_TYPES_index(config_type))

\* zfs.get_dataset(name): the dataset, or the error of the storage layer
get_dataset(z, name) ==
    IF z.denied THEN Raise("ZFSException: permission denied")
    ELSE IF name \in z.datasets THEN Ok(name)
    ELSE Raise("ZFSException: dataset does not exist")

\* os.path.isfile(self.abspath(file)) for the dataset of the resource
isfile(z, file) == file \in z.files

\* prop_name.startswith(prefix)
startswith(prop_name, prefix) == prop_name[1] = prefix

\* CONFIG_TYPES[0]
CONFIG_TYPES_first == Str(CONFIG_TYPES[1])

\* Resource._find_config_type, the dataset of the resource being there
\* (JailResource.dataset)
find_config_type(z) ==
    IF isfile(z, DEFAULT_JSON_FILE) THEN CONFIG_TYPES_index(Str("json"))
    ELSE IF isfile(z, DEFAULT_LEGACY_FILE) THEN CONFIG_TYPES_index(Str("legacy"))
    ELSE IF \E prop_name \in z.properties : startswith(prop_name, ZFS_PROPERTY_PREFIX)
    THEN CONFIG_TYPES_index(Str("zfs"))
    ELSE Ok(CONFIG_TYPES_first)

\* the getter of Resource.config_type: the index of "auto" is looked up
\* before anything else
get_config_type(self, z) ==
    IF ~CONFIG_TYPES_index(Str("auto")).ok THEN Raise("ValueError")
    ELSE IF self._config_type = CONFIG_TYPES_index(Str("auto")).val
    THEN find_config_type(z)
    ELSE Ok(self._config_type)

\* the outcome of a module-level function: what it returns or raises, and
\* the storage it leaves
Returns(v, z) == [ok |-> TRUE, val |-> v, zfs |-> z]
Raises(e, z) == [ok |-> FALSE, err |-> e, zfs |-> z]

\* whether the name self is bound in the module-level functions
\* createNewResource and getExistingOrNewResource: it is neither a parameter
\* nor a global
SelfBound == FALSE

\* dataset_name[0:dataset_name.index("/")]
pool_name_of(dataset_name) ==
    IF Len(dataset_name) < 2 THEN Raise("ValueError") ELSE Ok(dataset_name[1])

\* _find_pool(self, pool_name, zfs): the pool of that name, or None
find_pool(z, pool_name) == IF pool_name \in z.pools THEN Str(pool_name) ELSE NoneV

\* the except branch of createNewResource: _find_pool is called with two
\* arguments for its three parameters
create_missing(z, dataset_name) ==
    IF ~pool_name_of(dataset_name).ok THEN Raises("ValueError", z)
    ELSE Raises("TypeError", z)

\* createNewResource
createNewResource(z, dataset_name) ==
    IF ~SelfBound THEN Raises("NameError", z)
    ELSE IF ~get_dataset(z, dataset_name).ok THEN create_missing(z, dataset_name)
    ELSE Raises("TypeError", z)

\* getExistingOrNewResource: the bare except takes every error of the
\* lookup for the absence of the dataset
getExistingOrNewResource(z, dataset_name) ==
    IF ~get_dataset(z, dataset_name).ok
    THEN (IF ~SelfBound THEN Raises("NameError", z)
          ELSE createNewResource(z, dataset_name))
    ELSE IF ~SelfBound THEN Raises("NameError", z)
    ELSE Raises("TypeError", z)

---------------------------------------------------------------------------
(* Bounds and inputs *)

\* the longest text found in the fstab file at the start
MaxLines == 3
\* add() is not called on a set that holds this many lines
MaxStored == 2
\* the number of calls made on a configuration
MaxOps == 2

\* the most items a mapping written to the configuration file has
MaxKeys == 2

RECURSIVE SeqsUpTo(_, _)
\* the sequences over S of length 1..n
SeqsUpTo(S, n) ==
    IF n = 0 THEN {}
    ELSE LET shorter == SeqsUpTo(S, n - 1)
         IN  {<<x>> : x \in S} \cup shorter \cup {<<x>> \o q : x \in S, q \in shorter}

\* the content of the defaults resource: empty, or a template
DefaultsTemplate ==
    [k \in {"release", "basejail", "clonejail", "notes"} |->
        CASE k = "release" -> Str("12.0")
          [] k = "basejail" -> FalseV
          [] k = "clonejail" -> TrueV
          [] k = "notes" -> Str("dflt")]
DefaultsChoices == {EmptyData, DefaultsTemplate}

\* lines an fstab file may hold: mounts, a line of five fields, and a line
\* that carries the comment of a generated line
Mount(source, destination) ==
    FstabLine(source, destination, "nullfs", "ro", "0", "0", NoComment)
FileLines ==
    {line_to_string(Mount("A", "/x")),
     line_to_string(Mount("B", "/x")),
     line_to_string(Mount("A", "/y")),
     line_to_string(Mount("A", JailPath \o "/root/bin")),
     <<"A", " ", "/z", " ", "nullfs", " ", "ro", " ", "0">>,
     line_to_string(FstabLine("A", "/x", "nullfs", "ro", "0", "0",
                              <<AUTO_COMMENT_IDENTIFIER>>))}
FileTexts == SeqsUpTo(FileLines, MaxLines)

\* add(source, destination, comment=...)
AddInputs ==
    {<<"A", "/x", NoComment>>, <<"B", "/x", NoComment>>, <<"A", "/y", NoComment>>,
     <<"C", "/y", <<AUTO_COMMENT_IDENTIFIER>>>>}

\* add(source, destination, comment=...) with comments of one word, empty,
\* ending in a blank, and the reserved one
RoundTripAdds ==
    {<<"A", "/x", NoComment>>, <<"B", "/x", <<<<"note">>>>>>,
     <<"A", "/y", <<<<>>>>>>, <<"B", "/y", <<<<"note", " ">>>>>>,
     <<"C", "/z", <<AUTO_COMMENT_IDENTIFIER>>>>}
\* the settings that turn the generated lines on and off
RoundTripSets ==
    {<<"basejail", Str("yes")>>, <<"basejail", Str("no")>>,
     <<"basejail_type", Str("nullfs")>>, <<"cloned_release", Str("13.0")>>}

\* the mappings a jail that owns an fstab is constructed from
FstabJails ==
    {<<<<"basejail", Str("no")>>>>,
     <<<<"basejail", Str("yes")>>, <<"cloned_release", Str("13.0")>>>>}

FstabSetInputs ==
    {<<"basejail", Str("yes")>>, <<"basejail", Str("no")>>,
     <<"basejail_type", Str("nullfs")>>, <<"basejail_type", Str("zfs")>>,
     <<"cloned_release", Str("13.0")>>, <<"cloned_release", Str("14.0")>>,
     <<"release", Str("11.0")>>}

\* set(key, value, skip_on_error=...) as called on a configuration
SetInputs ==
    {<<"name", Str("web01"), FALSE>>,
     <<"name", Str("bad name"), FALSE>>,
     <<"name", Str("{4F3D2B1A-0000-0000-0000-000000000000}"), FALSE>>,
     <<"id", Str("bad name"), FALSE>>,
     <<"login_flags", Str("-f root"), FALSE>>,
     <<"login_flags", TrueV, FALSE>>,
     <<"login_flags", TrueV, TRUE>>,
     <<"tags", Str("a,b"), FALSE>>,
     <<"tags", TrueV, TRUE>>,
     <<"notes", Str("hello"), FALSE>>,
     <<"notes", NoneV, FALSE>>,
     <<"type", Str("basejail"), FALSE>>,
     <<"type", Str("jail"), FALSE>>}

\* clone(mapping, skip_on_error=...)
CloneInputs ==
    {<<<<<<"name", Str("web01")>>, <<"id", Str("web02")>>>>, FALSE>>,
     <<<<<<"uuid", Str("web02")>>, <<"notes", Str("hello")>>>>, FALSE>>,
     <<<<<<"id", Str("web02")>>, <<"login_flags", TrueV>>>>, TRUE>>}

\* the mappings a configuration is constructed from
InitMappings == {<<>>, <<<<"name", Str("web01")>>>>}

\* the calls that fill the configuration before it is read
GetSetInputs ==
    {<<"jail_zfs", Str("off")>>, <<"jail_zfs", Str("on")>>,
     <<"jail_zfs_dataset", Str("pool/x")>>,
     <<"notes", Str("hello")>>, <<"notes", TrueV>>,
     <<"login_flags", List(<<"-f", "root">>)>>,
     <<"basejail", Str("yes")>>,
     <<"type", Str("jail")>>}

\* the properties read
GetKeys == {"id", "legacy", "notes", "jail_zfs", "jail_zfs_dataset", "login_flags",
            "basejail", "type", "release", "hostname"}

\* no encoding holds a configuration; no configuration file; a host without
\* pools
NoBacking == [json |-> <<>>, ucl |-> <<>>, zfs |-> <<>>]
NoConfFile == [exists |-> FALSE, content |-> <<>>]
NoStorage == [pools |-> {}, datasets |-> {}, mounted |-> {}, files |-> {},
              properties |-> {}, denied |-> FALSE]

\* the names resolved: on the pool zroot, on a pool the host does not have,
\* and one without a pool segment
ResourceName == <<"zroot", "iocage", "jails", "web01">>
DatasetNames == {ResourceName, <<"tank", "jails", "db01">>, <<"web01">>}
\* what the dataset of the resource holds when it exists
FileChoices == SUBSET {DEFAULT_JSON_FILE, DEFAULT_LEGACY_FILE}
PropertyChoices ==
    {{<<"", "mountpoint">>},
     {<<"", "mountpoint">>, <<ZFS_PROPERTY_PREFIX, "host_hostname">>},
     {<<"", "mountpoint">>, <<"org.freebsd:", "swap">>}}
\* the storage at the start: the pool zroot, with or without the dataset of
\* the resource, readable or not by the caller
StorageChoices ==
    {[pools |-> {"zroot"}, datasets |-> {}, mounted |-> {}, files |-> {},
      properties |-> {}, denied |-> d] : d \in BOOLEAN}
    \cup
    {[pools |-> {"zroot"}, datasets |-> {ResourceName}, mounted |-> m,
      files |-> f, properties |-> p, denied |-> d] :
        m \in {{}, {ResourceName}}, f \in FileChoices, p \in PropertyChoices,
        d \in BOOLEAN}
\* the config_type arguments of Resource()
ConfigTypeArgs == {Str("auto"), Str("json"), Str("legacy"), Str("zfs")}

\* what an encoding may hold for the jail: nothing, or a mapping that names
\* the encoding it comes from
Held(type) ==
    {<<>>,
     <<<<<<"notes", Str(type)>>>>>>,
     <<<<<<"notes", Str(type)>>, <<"release", Str("11.0")>>,
         <<"legacy", Str("yes")>>>>>>}
BackingChoices ==
    {[json |-> j, ucl |-> u, zfs |-> z] :
        j \in Held("json"), u \in Held("ucl"), z \in Held("zfs")}

\* the calls made on a configuration before it is read from its encodings
ReadSetInputs ==
    {<<"legacy", TrueV>>, <<"notes", Str("hello")>>, <<"release", Str("12.1")>>}

\* the values ip6_addr is set to: address lists, a value that is no address
\* list, and none
AddrValues == {Str(a) : a \in ValidAddresses} \cup {Str("bogus"), Str("none")}

\* assignments of type, and of the two properties it is derived from
TypeSetInputs ==
    {<<"type", Str("basejail")>>, <<"type", Str("clonejail")>>,
     <<"type", Str("jail")>>, <<"type", Str("template")>>,
     <<"basejail", Str("yes")>>, <<"basejail", Str("no")>>,
     <<"clonejail", Str("on")>>, <<"clonejail", Str("off")>>,
     <<"legacy", TrueV>>}

\* the mappings written to the configuration file: scalars, booleans, lists
\* and None under distinct keys, in any insertion order
ConfItems ==
    {<<"a", NoneV>>, <<"a", TrueV>>, <<"b", List(<<"p", "q">>)>>,
     <<"b", Str("a\"b")>>, <<"c", FalseV>>, <<"c", Str("x")>>}
ConfMappings ==
    {<<>>} \cup
    {m \in SeqsUpTo(ConfItems, MaxKeys) :
        \A i, j \in DOMAIN m : m[i][1] = m[j][1] => i = j}

\* the file before the first call: absent, empty, not JSON, a document
\* followed by more, a document that is not an object, or a document written
\* earlier
ConfFileChoices ==
    {NoConfFile,
     [exists |-> TRUE, content |-> <<"[", "]">>],
     [exists |-> TRUE, content |-> <<>>],
     [exists |-> TRUE, content |-> <<"#", "\n", "a", "=", "x">>],
     [exists |-> TRUE,
      content |-> to_json(<<<<"a", TrueV>>, <<"c", Str("x")>>>>) \o <<"\n", "}">>],
     [exists |-> TRUE,
      content |-> to_json(<<<<"a", TrueV>>, <<"c", Str("x")>>>>)]}

---------------------------------------------------------------------------
(* State machine *)

\* the configuration in the current state
Cfg == [data |-> data, tags |-> tags,
        special_properties |-> special_properties, rc_conf |-> rc_conf]
NoFile == [exists |-> FALSE, text |-> <<EmptyLine>>]
File(text) == [exists |-> TRUE, text |-> text]

\* JailConfig(data=m)
Constructed(m) ==
    \E r \in {construct(m)} :
        /\ r.ok
        /\ data = r.c.data
        /\ tags = r.c.tags
        /\ special_properties = r.c.special_properties
        /\ rc_conf = r.c.rc_conf

\* a jail with an empty fstab and no fstab file
InitFstab ==
    /\ \E m \in FstabJails : Constructed(m)
    /\ defaults = DefaultsTemplate
    /\ helpersAttr = FALSE
    /\ backing = NoBacking
    /\ confFile = NoConfFile
    /\ zfs = NoStorage
    /\ stored = <<>>
    /\ fstabFile = NoFile
    /\ lastOp = [op |-> "init"]
    /\ nops = 0

\* a jail with an fstab file left by an earlier run or by the administrator
InitParse ==
    /\ \E m \in FstabJails : Constructed(m)
    /\ defaults = DefaultsTemplate
    /\ helpersAttr = FALSE
    /\ backing = NoBacking
    /\ confFile = NoConfFile
    /\ zfs = NoStorage
    /\ stored = <<>>
    /\ fstabFile \in {File(t) : t \in FileTexts}
    /\ lastOp = [op |-> "init"]
    /\ nops = 0

\* a new jail, whose defaults resource may be empty
InitBasejail ==
    /\ Constructed(<<>>)
    /\ defaults \in DefaultsChoices
    /\ helpersAttr = FALSE
    /\ backing = NoBacking
    /\ confFile = NoConfFile
    /\ zfs = NoStorage
    /\ stored = <<>>
    /\ fstabFile = NoFile
    /\ lastOp = [op |-> "init"]
    /\ nops = 0

\* a configuration: JailConfig(data=m)
Init ==
    /\ \E m \in InitMappings : Constructed(m)
    /\ defaults \in DefaultsChoices
    /\ helpersAttr = FALSE
    /\ backing = NoBacking
    /\ confFile = NoConfFile
    /\ zfs = NoStorage
    /\ stored = <<>>
    /\ fstabFile = NoFile
    /\ lastOp = [op |-> "init"]
    /\ nops = 0

\* a new configuration of a jail that some encodings hold a configuration for
InitRead ==
    /\ Constructed(<<>>)
    /\ defaults = DefaultsTemplate
    /\ helpersAttr = FALSE
    /\ backing \in BackingChoices
    /\ confFile = NoConfFile
    /\ zfs = NoStorage
    /\ stored = <<>>
    /\ fstabFile = NoFile
    /\ lastOp = [op |-> "init"]
    /\ nops = 0

\* a host whose storage is in one of the states resources are resolved in
InitResource ==
    /\ Constructed(<<>>)
    /\ defaults = DefaultsTemplate
    /\ helpersAttr = FALSE
    /\ backing = NoBacking
    /\ confFile = NoConfFile
    /\ zfs \in StorageChoices
    /\ stored = <<>>
    /\ fstabFile = NoFile
    /\ lastOp = [op |-> "init"]
    /\ nops = 0

\* a ConfigJSON and its file
InitConf ==
    /\ Constructed(<<>>)
    /\ defaults = DefaultsTemplate
    /\ helpersAttr = FALSE
    /\ backing = NoBacking
    /\ confFile \in ConfFileChoices
    /\ zfs = NoStorage
    /\ stored = <<>>
    /\ fstabFile = NoFile
    /\ lastOp = [op |-> "init"]
    /\ nops = 0

\* a new configuration that is filled and read
InitGet ==
    /\ Constructed(<<>>)
    /\ defaults \in DefaultsChoices
    /\ helpersAttr \in BOOLEAN
    /\ backing = NoBacking
    /\ confFile = NoConfFile
    /\ zfs = NoStorage
    /\ stored = <<>>
    /\ fstabFile = NoFile
    /\ lastOp = [op |-> "init"]
    /\ nops = 0

\* JailConfigFstab.add
JailConfigFstab_add(source, destination, comment) ==
    /\ Len(stored) < MaxStored
    /\ stored' \in set_add(stored, FstabLine(source, destination, "nullfs", "ro",
                                             "0", "0", comment))
    /\ lastOp' = [op |-> "add"]
    /\ UNCHANGED <<data, tags, special_properties, rc_conf, defaults,
                     helpersAttr, backing, confFile, zfs, fstabFile, nops>>

\* JailConfigFstab.read_file: parse_lines on the content of the file, if any
JailConfigFstab_read_file ==
    /\ IF fstabFile.exists
       THEN \E r \in parse_lines(fstabFile.text, Cfg, TRUE) :
               /\ stored' = r.st
               /\ lastOp' = [op |-> "read_file", ok |-> r.ok, parsed |-> TRUE,
                             events |-> r.events]
       ELSE /\ stored' = stored
            /\ lastOp' = [op |-> "read_file", ok |-> TRUE, parsed |-> FALSE,
                          events |-> {}]
    /\ UNCHANGED <<data, tags, special_properties, rc_conf, defaults,
                     helpersAttr, backing, confFile, zfs, fstabFile, nops>>

\* JailConfigFstab.save: open(path, "w") empties the file before __str__ runs
JailConfigFstab_save ==
    \E text \in {fstab_str(stored, Cfg)} :
        /\ fstabFile' = IF text.ok THEN File(text.val) ELSE File(<<EmptyLine>>)
        /\ lastOp' = [op |-> "save", ok |-> text.ok]
        /\ UNCHANGED <<data, tags, special_properties, rc_conf, defaults,
                     helpersAttr, backing, confFile, zfs, stored, nops>>

\* fstab.parse_lines(str(fstab), ignore_auto_created=True)
JailConfigFstab_reparse ==
    \E it \in {iter(stored, Cfg)} :
        /\ IF it.ok
           THEN \E r \in parse_lines(joined(it).val, Cfg, TRUE) :
                   /\ stored' = r.st
                   /\ lastOp' = [op |-> "reparse", serialized |-> TRUE, ok |-> r.ok,
                                 before |-> stored, lines |-> it.val,
                                 text |-> joined(it).val]
           ELSE /\ stored' = stored
                /\ lastOp' = [op |-> "reparse", serialized |-> FALSE, ok |-> FALSE]
        /\ UNCHANGED <<data, tags, special_properties, rc_conf, defaults,
                       helpersAttr, backing, confFile, zfs, fstabFile, nops>>

\* iterating the fstab: list(fstab)
JailConfigFstab_iter ==
    \E it \in {iter(stored, Cfg)} :
        /\ lastOp' = IF it.ok THEN [op |-> "iter", ok |-> TRUE, lines |-> it.val]
                     ELSE [op |-> "iter", ok |-> FALSE, err |-> it.err]
        /\ UNCHANGED <<data, tags, special_properties, rc_conf, defaults,
                     helpersAttr, backing, confFile, zfs, stored, fstabFile, nops>>

\* the value the user tiers hold for a property, if any
value_of(r) == IF r.ok THEN <<"value", r.val>> ELSE <<"unset">>

UserValue(c, key) == value_of(getitem_user(c, key, FALSE))

\* JailConfig.set(key, value, skip_on_error=...)
JailConfig_set(key, value, skip_on_error) ==
    \E r \in {set(Cfg, key, value, SkipOnError(skip_on_error))} :
        /\ data' = r.c.data
        /\ tags' = r.c.tags
        /\ lastOp' = [op |-> "set", key |-> key, value |-> value,
                      skip_on_error |-> skip_on_error,
                      assigned |-> key \in DOMAIN data
                                   \/ (key = "tags" /\ tags # NoAttr),
                      before |-> UserValue(Cfg, key),
                      after |-> UserValue(r.c, key)] @@ r
        /\ special_properties' = r.c.special_properties
        /\ rc_conf' = r.c.rc_conf
        /\ UNCHANGED <<defaults, helpersAttr, backing, confFile, zfs, stored,
                       fstabFile>>

\* JailConfig.set(key, value): no keyword argument
JailConfig_set_default(key, value) ==
    \E r \in {set(Cfg, key, value, NoKwargs)} :
        /\ data' = r.c.data
        /\ tags' = r.c.tags
        /\ special_properties' = r.c.special_properties
        /\ rc_conf' = r.c.rc_conf
        /\ lastOp' = [op |-> "set", key |-> key, value |-> value,
                      assigned |-> key \in DOMAIN data
                                   \/ (key = "tags" /\ tags # NoAttr),
                      before |-> UserValue(Cfg, key),
                      after |-> UserValue(r.c, key)] @@ r
        /\ UNCHANGED <<defaults, helpersAttr, backing, confFile, zfs, stored,
                       fstabFile, nops>>

\* JailConfig.clone(m, skip_on_error=...)
JailConfig_clone(m, skip_on_error) ==
    \E r \in {clone(Cfg, m, skip_on_error)} :
        /\ data' = r.c.data
        /\ tags' = r.c.tags
        /\ lastOp' = [op |-> "clone", mapping |-> m,
                      skip_on_error |-> skip_on_error,
                      id_before |-> data["id"]] @@ r
        /\ special_properties' = r.c.special_properties
        /\ rc_conf' = r.c.rc_conf
        /\ UNCHANGED <<defaults, helpersAttr, backing, confFile, zfs, stored,
                       fstabFile>>

\* config[key]
JailConfig_getitem(key) ==
    /\ lastOp' = [op |-> "get", key |-> key] @@ getitem(Cfg, key, FALSE)
    /\ UNCHANGED <<data, tags, special_properties, rc_conf, defaults,
                     helpersAttr, backing, confFile, zfs, stored, fstabFile, nops>>

\* config.get_string(key)
JailConfig_get_string(key) ==
    /\ lastOp' = [op |-> "get_string", key |-> key] @@ get_string(Cfg, key)
    /\ UNCHANGED <<data, tags, special_properties, rc_conf, defaults,
                     helpersAttr, backing, confFile, zfs, stored, fstabFile, nops>>

\* the loop of the cli over config["all_properties"] with no property named:
\* config["get_string"](key) for every key
cli_get_all ==
    /\ lastOp' = [op |-> "get_all",
                  all_properties |-> all_properties(Cfg),
                  values |-> [key \in all_properties(Cfg) |-> get_string(Cfg, key)]]
    /\ UNCHANGED <<data, tags, special_properties, rc_conf, defaults,
                   helpersAttr, backing, confFile, zfs, stored, fstabFile, nops>>

\* JailConfig.read()
JailConfig_read ==
    \E r \in {read(Cfg, backing)} :
        /\ data' = r.c.data
        /\ tags' = r.c.tags
        /\ special_properties' = r.c.special_properties
        /\ rc_conf' = r.c.rc_conf
        /\ lastOp' = [op |-> "read", before |-> data] @@ r
        /\ UNCHANGED <<defaults, helpersAttr, backing, confFile, zfs, stored,
                       fstabFile, nops>>

\* ConfigJSON.write(mapping)
ConfigJSON_write(mapping) ==
    /\ confFile' = config_write(confFile, mapping)
    /\ lastOp' = [op |-> "write", mapping |-> mapping,
                  had |-> Len(confFile.content)]
    /\ UNCHANGED <<data, tags, special_properties, rc_conf, defaults,
                   helpersAttr, backing, zfs, stored, fstabFile, nops>>

\* ConfigJSON.write(mapping) by a process that is stopped after open() and
\* before the text is written in full
ConfigJSON_write_interrupted(mapping) ==
    /\ \E n \in 0..(Len(to_json(mapping)) - 1) :
          confFile' = write_interrupted(confFile, mapping, n)
    /\ lastOp' = [op |-> "write_interrupted"]
    /\ UNCHANGED <<data, tags, special_properties, rc_conf, defaults,
                   helpersAttr, backing, zfs, stored, fstabFile, nops>>

\* ConfigJSON.read()
ConfigJSON_read ==
    /\ lastOp' = [op |-> "read"] @@ config_read(confFile)
    /\ UNCHANGED <<data, tags, special_properties, rc_conf, defaults,
                   helpersAttr, backing, confFile, zfs, stored, fstabFile, nops>>

\* Resource(config_type=...)
Resource_new(config_type) ==
    /\ lastOp' = [op |-> "Resource", config_type |-> config_type]
                  @@ Resource_init(config_type, NoneV)
    /\ UNCHANGED <<data, tags, special_properties, rc_conf, defaults,
                   helpersAttr, backing, confFile, zfs, stored, fstabFile, nops>>

\* resource._find_config_type() on the resource of a jail whose dataset is
\* ResourceName
Resource_find_config_type ==
    /\ lastOp' = [op |-> "_find_config_type"]
                  @@ (IF get_dataset(zfs, ResourceName).ok THEN find_config_type(zfs)
                      ELSE get_dataset(zfs, ResourceName))
    /\ UNCHANGED <<data, tags, special_properties, rc_conf, defaults,
                   helpersAttr, backing, confFile, zfs, stored, fstabFile, nops>>

\* getExistingOrNewResource(dataset_name, zfs)
Resource_getExistingOrNewResource(dataset_name) ==
    \E r \in {getExistingOrNewResource(zfs, dataset_name)} :
        /\ zfs' = r.zfs
        /\ lastOp' = [op |-> "getExistingOrNewResource",
                      dataset_name |-> dataset_name, before |-> zfs] @@ r
        /\ UNCHANGED <<data, tags, special_properties, rc_conf, defaults,
                       helpersAttr, backing, confFile, stored, fstabFile, nops>>

\* createNewResource(dataset_name, zfs)
Resource_createNewResource(dataset_name) ==
    \E r \in {createNewResource(zfs, dataset_name)} :
        /\ zfs' = r.zfs
        /\ lastOp' = [op |-> "createNewResource",
                      dataset_name |-> dataset_name, before |-> zfs] @@ r
        /\ UNCHANGED <<data, tags, special_properties, rc_conf, defaults,
                       helpersAttr, backing, confFile, stored, fstabFile, nops>>

NextFstab ==
    \/ \E a \in AddInputs : JailConfigFstab_add(a[1], a[2], a[3])
    \/ JailConfigFstab_read_file
    \/ JailConfigFstab_save
    \/ JailConfigFstab_iter

SpecFstab == InitFstab /\ [][NextFstab]_vars

NextParse == JailConfigFstab_read_file

SpecParse == InitParse /\ [][NextParse]_vars

NextBasejail ==
    \/ \E kv \in FstabSetInputs : JailConfig_set(kv[1], kv[2], FALSE) /\ UNCHANGED nops
    \/ JailConfigFstab_add("A", "/x", NoComment)
    \/ JailConfigFstab_iter

SpecBasejail == InitBasejail /\ [][NextBasejail]_vars

Next ==
    /\ nops < MaxOps
    /\ nops' = nops + 1
    /\ \/ \E i \in SetInputs : JailConfig_set(i[1], i[2], i[3])
       \/ \E i \in CloneInputs : JailConfig_clone(i[1], i[2])

Spec == Init /\ [][Next]_vars

NextGet ==
    \/ \E kv \in GetSetInputs : JailConfig_set(kv[1], kv[2], FALSE) /\ UNCHANGED nops
    \/ \E key \in GetKeys : JailConfig_getitem(key)
    \/ \E key \in GetKeys : JailConfig_get_string(key)

SpecGet == InitGet /\ [][NextGet]_vars

NextRoundTrip ==
    \/ \E kv \in RoundTripSets : JailConfig_set(kv[1], kv[2], FALSE) /\ UNCHANGED nops
    \/ \E a \in RoundTripAdds : JailConfigFstab_add(a[1], a[2], a[3])
    \/ JailConfigFstab_reparse

SpecRoundTrip == InitBasejail /\ [][NextRoundTrip]_vars

NextList ==
    \/ \E kv \in GetSetInputs : JailConfig_set(kv[1], kv[2], FALSE) /\ UNCHANGED nops
    \/ cli_get_all

SpecList == InitGet /\ [][NextList]_vars

NextAddr ==
    \/ \E v \in AddrValues : JailConfig_set_default("ip6_addr", v)
    \/ \E v \in AddrValues, b \in BOOLEAN :
          JailConfig_set("ip6_addr", v, b) /\ UNCHANGED nops
    \/ \E v \in AddrValues, b \in BOOLEAN :
          JailConfig_clone(<<<<"ip6_addr", v>>>>, b) /\ UNCHANGED nops

SpecAddr == InitBasejail /\ [][NextAddr]_vars

NextType ==
    \E kv \in TypeSetInputs : JailConfig_set(kv[1], kv[2], FALSE) /\ UNCHANGED nops

SpecType == InitBasejail /\ [][NextType]_vars

NextConf ==
    \/ \E m \in ConfMappings : ConfigJSON_write(m)
    \/ \E m \in ConfMappings : ConfigJSON_write_interrupted(m)
    \/ ConfigJSON_read

SpecConf == InitConf /\ [][NextConf]_vars

NextResource ==
    \/ \E t \in ConfigTypeArgs : Resource_new(t)
    \/ Resource_find_config_type
    \/ \E n \in DatasetNames : Resource_getExistingOrNewResource(n)
    \/ \E n \in DatasetNames : Resource_createNewResource(n)

SpecResource == InitResource /\ [][NextResource]_vars

NextRead ==
    \/ \E kv \in ReadSetInputs : JailConfig_set(kv[1], kv[2], FALSE) /\ UNCHANGED nops
    \/ JailConfig_read

SpecRead == InitRead /\ [][NextRead]_vars


---------------------------------------------------------------------------
(* Properties of the mount table *)

\* C1: the stored set holds at most one entry per destination (the entry
\* written last), whatever add() calls and parsed lines filled it.
C1_OneEntryPerDestination ==
    \A i, j \in DOMAIN stored :
        stored[i].destination = stored[j].destination => i = j

\* line i of the text is a six-field line that parse_lines stores
IsStoredLine(text, i) ==
    /\ ~(HashAt(text[i]) > 0 /\ CommentOf(text[i]) = <<AUTO_COMMENT_IDENTIFIER>>)
    /\ Len(Split(BodyOf(text[i]))) = 6
DestinationAt(text, i) == Split(BodyOf(text[i]))[2]

\* C2: parsing a text logs the duplicate-destination warning for exactly the
\* stored lines whose destination occurs on an earlier stored line of the text.
C2_DuplicateWarnings ==
    (lastOp.op = "read_file" /\ lastOp.parsed /\ lastOp.ok) =>
        \A i \in DOMAIN fstabFile.text :
            IsStoredLine(fstabFile.text, i) =>
                ([kind |-> "duplicate", line |-> i] \in lastOp.events
                 <=> \E j \in 1..(i - 1) :
                        /\ IsStoredLine(fstabFile.text, j)
                        /\ DestinationAt(fstabFile.text, j) = DestinationAt(fstabFile.text, i))

\* the value a property has for the jail: the explicit one, else the default
Explicit(key) == key \in DOMAIN data
HasValue(key) == Explicit(key) \/ key \in DOMAIN defaults
ValueOf(key) == IF Explicit(key) THEN data[key] ELSE defaults[key]
IsBasejail == HasValue("basejail") /\ Truthy(parse_user_input(ValueOf("basejail")))
IsNullfs ==
    IF Explicit("basejail_type") THEN data["basejail_type"] = Str("nullfs")
    ELSE IsBasejail
ClonedReleaseKey == IF Explicit("cloned_release") THEN "cloned_release" ELSE "release"
\* the entries the configuration asks for
GeneratedEntries ==
    IF IsBasejail /\ IsNullfs
    THEN [i \in DOMAIN BaseDirs |->
            [source |-> ReleaseMount \o "/" \o ValueOf(ClonedReleaseKey)[2]
                            \o "/root/" \o BaseDirs[i],
             destination |-> JailPath \o "/root/" \o BaseDirs[i],
             type |-> "nullfs", options |-> "ro", dump |-> "0", passnum |-> "0",
             comment |-> <<<<"iocage-auto">>>>]]
    ELSE <<>>

HasAutoComment(line) == line.comment = <<AUTO_COMMENT_IDENTIFIER>>

\* C4: iterating and saving leave the stored set as it is, and after a parse
\* that ignores generated lines no stored entry carries the reserved comment.
C4_GeneratedNeverStored ==
    [][/\ lastOp'.op \in {"iter", "save"} => stored' = stored
       /\ (lastOp'.op = "read_file" /\ lastOp'.parsed) =>
              \A i \in DOMAIN stored' : ~HasAutoComment(stored'[i])]_vars

\* the file written by save() holds generated lines and has been read back
C4_Witness ==
    /\ lastOp.op = "read_file" /\ lastOp.parsed /\ lastOp.ok
    /\ stored # <<>>
    /\ \E i \in DOMAIN fstabFile.text :
          /\ CommentOf(fstabFile.text[i]) = <<AUTO_COMMENT_IDENTIFIER>>
          /\ Split(BodyOf(fstabFile.text[i]))[2] = JailPath \o "/root/bin"

---------------------------------------------------------------------------
(* Properties of the configuration *)

\* C5: get(key) returns the plain-store value only for a key without a
\* special getter, a default only when the key has no explicit value, and
\* fails, with PropertyNotFound, only when the key has no value at any tier.
C5_ResolutionChain ==
    lastOp.op = "get" =>
        /\ (lastOp.ok /\ lastOp.tier = "plain") => lastOp.key \notin Getters
        /\ (lastOp.ok /\ lastOp.tier = "default") => lastOp.key \notin DOMAIN data
        /\ ~lastOp.ok =>
              /\ lastOp.err = "PropertyNotFound"
              /\ lastOp.key \notin DOMAIN data
              /\ lastOp.key \notin DOMAIN defaults

\* the canonical string of a value
Canonical(v) == Str(to_string(v, "yes", "no", "none"))

\* C6: getString(key) returns the canonical string of the value that get(key)
\* returns, and fails when get(key) fails.
C6_StringOfResolvedValue ==
    lastOp.op = "get_string" =>
        LET got == getitem(Cfg, lastOp.key, FALSE)
        IN  IF got.ok
            THEN lastOp.ok /\ lastOp.val = Canonical(got.val)
            ELSE ~lastOp.ok

\* C7: a successful set(key, value) returns true exactly when the value of the
\* property differs from the one before the call, and returns true when the
\* property had not been assigned before.
C7_ReturnsChanged ==
    (lastOp.op = "set" /\ lastOp.ok) =>
        /\ lastOp.ret <=> (lastOp.after # lastOp.before)
        /\ ~lastOp.assigned => lastOp.ret

\* the validating setters of login_flags and tags reject the parsed value
Rejected(key, value) ==
    LET parsed == parse_user_input(value)
    IN  \/ key = "login_flags" /\ ~IsNone(parsed) /\ ~IsList(parsed) /\ ~IsStr(parsed)
        \/ key = "tags" /\ ~IsList(parsed) /\ ~IsStr(parsed)

\* C8: a set whose value the handler rejects fails with the invalid-value
\* error, unless skip_on_error is given: then it succeeds and the plain store
\* holds the raw value under the key.
C8_SkipOnErrorStoresRaw ==
    (lastOp.op = "set" /\ Rejected(lastOp.key, lastOp.value)) =>
        IF lastOp.skip_on_error
        THEN /\ lastOp.ok
             /\ lastOp.key \in DOMAIN data
             /\ data[lastOp.key] = lastOp.value
        ELSE ~lastOp.ok /\ lastOp.err = "InvalidJailConfigValue"

\* the indices of the identity aliases in a mapping
AliasAt(m) == {i \in DOMAIN m : m[i][1] \in IdAliases}
FirstAliasValue(m) == m[CHOOSE i \in AliasAt(m) : \A j \in AliasAt(m) : i <= j][2]

\* C9: after a bulk apply the id is the one held before, if one was set, and
\* otherwise the value of the first alias (id, name, uuid) of the mapping.
C9_IdentityPinned ==
    (lastOp.op = "clone" /\ lastOp.ok /\ AliasAt(lastOp.mapping) # {}) =>
        data["id"] = IF ~IsNone(lastOp.id_before) THEN lastOp.id_before
                     ELSE FirstAliasValue(lastOp.mapping)

\* C10: the id is unset, a name that passes validation, or a UUID.
C10_IdentityValidated ==
    \/ IsNone(data["id"])
    \/ IsStr(data["id"]) /\ validate_name(data["id"][2])
    \/ data["id"] = Str(CanonicalUUID)

---------------------------------------------------------------------------
(* Properties of read *)

\* the encoding read() is to use: the first that exists of the JSON file, the
\* legacy file and the ZFS properties
FirstEncoding ==
    IF backing.json # <<>> THEN <<"json", backing.json[1]>>
    ELSE IF backing.ucl # <<>> THEN <<"ucl", backing.ucl[1]>>
    ELSE IF backing.zfs # <<>> THEN <<"zfs", backing.zfs[1]>>
    ELSE <<>>

\* C11: read() returns the name of the first encoding that exists (JSON file,
\* legacy file, ZFS properties) and has loaded that encoding only: every
\* property but legacy has the value that encoding holds for it, or the
\* value it had before; legacy is False after the JSON file and True after
\* a legacy encoding.  When no encoding exists read() returns None and the
\* stored properties, legacy included, are as before.
C11_ReadFirstEncoding ==
    lastOp.op = "read" =>
        /\ lastOp.ok
        /\ IF FirstEncoding = <<>>
           THEN lastOp.ret = NoneV /\ data = lastOp.before
           ELSE /\ lastOp.ret = Str(FirstEncoding[1])
                /\ data["legacy"] = IF FirstEncoding[1] = "json" THEN FalseV
                                    ELSE TrueV
                /\ DOMAIN data = DOMAIN lastOp.before \cup Keys(FirstEncoding[2])
                /\ \A k \in DOMAIN data \ {"legacy"} :
                       data[k] = IF k \in Keys(FirstEncoding[2])
                                 THEN Lookup(FirstEncoding[2], k)
                                 ELSE lastOp.before[k]

\* a read from the JSON file of a jail that also has a legacy file and ZFS
\* properties, by a configuration that was marked legacy
C11_Witness ==
    /\ lastOp.op = "read"
    /\ lastOp.ok
    /\ lastOp.ret = Str("json")
    /\ backing.ucl # <<>>
    /\ backing.zfs # <<>>
    /\ lastOp.before["legacy"] = TrueV
    /\ data["legacy"] = FalseV
    /\ data["notes"] = Str("json")

---------------------------------------------------------------------------
(* Properties of the address properties *)

\* the last call assigned ip6_addr, by set() or by clone()
SetsIp6 ==
    \/ lastOp.op = "set" /\ lastOp.key = "ip6_addr"
    \/ lastOp.op = "clone" /\ "ip6_addr" \in Keys(lastOp.mapping)

\* the value it was given
Ip6Value ==
    IF lastOp.op = "set" THEN lastOp.value ELSE Lookup(lastOp.mapping, "ip6_addr")

\* C12: ip6_addr can be set by set() with default arguments, by set() with
\* skip_on_error and by clone(): a list of addresses (or none) is applied on
\* each of these routes, and after a value was applied the run-control flag
\* rtsold_enable tells whether that value holds the token accept_rtadv.
C12_RtadvFollowsValue ==
    SetsIp6 =>
        /\ (Ip6Value[2] \in ValidAddresses \cup {"none"}) => lastOp.ok
        /\ lastOp.ok =>
               /\ "rtsold_enable" \in DOMAIN rc_conf
               /\ rc_conf["rtsold_enable"] =
                      IF contains_accept_rtadv(Ip6Value[2]) THEN TrueV ELSE FalseV

---------------------------------------------------------------------------
(* Properties of type *)

\* the configuration in the next state
CfgNext == [data |-> data', tags |-> tags',
            special_properties |-> special_properties', rc_conf |-> rc_conf']

\* config[key] is the boolean b
Reads(c, key, b) ==
    LET r == getitem(c, key, FALSE)
    IN  r.ok /\ r.val = b

\* what type is to read as: from basejail, then clonejail
TypeFromFlags(c) ==
    IF Reads(c, "basejail", TrueV) THEN Str("basejail")
    ELSE IF Reads(c, "clonejail", TrueV) THEN Str("clonejail")
    ELSE Str("jail")

\* what C13 says of an assignment of type that leads from the current state
\* to the next
TypeAssigned ==
    /\ lastOp'.value = Str("basejail") =>
           Reads(CfgNext, "basejail", TrueV) /\ Reads(CfgNext, "clonejail", FalseV)
    /\ lastOp'.value = Str("clonejail") =>
           Reads(CfgNext, "basejail", FalseV) /\ Reads(CfgNext, "clonejail", TrueV)
    /\ lastOp'.value \notin {Str("basejail"), Str("clonejail")} =>
           /\ data'["type"] = lastOp'.value
           /\ \A k \in {"basejail", "clonejail"} :
                  /\ (k \in DOMAIN data') = (k \in DOMAIN data)
                  /\ k \in DOMAIN data => data'[k] = data[k]
    /\ LET type == getitem(CfgNext, "type", FALSE)
       IN  type.ok /\ type.val = TypeFromFlags(CfgNext)

\* C13: an assignment of type "basejail" leaves basejail true and clonejail
\* false, one of "clonejail" the inverse, and one of another literal stores
\* the literal in the plain field type and leaves the plain fields basejail
\* and clonejail as they were; type then reads "basejail" when basejail is
\* true, else "clonejail" when clonejail is true, else "jail".
C13_TypeOverFlags ==
    [][(lastOp'.op = "set" /\ lastOp'.key = "type" /\ lastOp'.ok) => TypeAssigned]_vars

---------------------------------------------------------------------------
(* Properties of the JSON configuration file *)

\* a mapping as a function of its keys
AsDict(m) == [k \in Keys(m) |-> Lookup(m, k)]

\* the canonical string of a value: yes/no, none, the string itself, the
\* elements of a list joined by blanks
CanonicalString(v) ==
    CASE v = TrueV -> "yes"
      [] v = FalseV -> "no"
      [] v = NoneV -> "none"
      [] IsStr(v) -> v[2]
      [] IsList(v) -> JoinWith(" ", Items(v))

\* C14: read() right after write(m) returns a mapping with the keys of m,
\* each once, in which every value is the canonical string of the value m
\* holds: "yes"/"no" for a boolean, "none" for None.
C14_RoundTrip ==
    [][(lastOp.op = "write" /\ lastOp'.op = "read") =>
          /\ lastOp'.ok
          /\ Len(lastOp'.val) = Len(lastOp.mapping)
          /\ AsDict(lastOp'.val) =
                 [k \in Keys(lastOp.mapping) |->
                     Str(CanonicalString(Lookup(lastOp.mapping, k)))]
      ]_vars

\* a read that returns what a mapping with None, a list and a string that
\* needs escaping was written as
C14_Witness ==
    /\ lastOp.op = "read"
    /\ lastOp.type = "dict"
    /\ \E i, j \in DOMAIN lastOp.val :
          /\ lastOp.val[i] = <<"a", Str("none")>>
          /\ lastOp.val[j] \in {<<"b", Str("p q")>>, <<"b", Str("a\"b")>>}

\* C15: after write(m) the file holds the serialization of m with its keys
\* sorted and nothing else, whatever it held before; writing the same
\* mapping again leaves the file as it is.
C15_FileIsSerialization ==
    [][lastOp'.op = "write" =>
          /\ confFile' = [exists |-> TRUE,
                          content |-> to_json(sort_keys(lastOp'.mapping))]
          /\ (lastOp.op = "write" /\ lastOp.mapping = lastOp'.mapping) =>
                 confFile' = confFile
      ]_vars

\* a write of a mapping whose keys were inserted out of order, to a file that
\* was longer
C15_Witness ==
    /\ lastOp.op = "write"
    /\ lastOp.had > Len(confFile.content)
    /\ Len(lastOp.mapping) = 2
    /\ KeyRank(lastOp.mapping[1][1]) > KeyRank(lastOp.mapping[2][1])

\* the file holds a configuration: the text of some mapping and no more
HoldsDocument ==
    /\ confFile.exists
    /\ \E m \in ConfMappings : confFile.content = to_json(m)

\* C16: read() never raises and returns a mapping in every state of the file,
\* and returns the empty mapping whenever the file is absent or does not hold
\* a complete document (it was corrupted, or a write was interrupted).
C16_ReadNeverFails ==
    lastOp.op = "read" =>
        /\ lastOp.ok
        /\ lastOp.type = "dict"
        /\ ~HoldsDocument => lastOp.val = <<>>

\* the parts of C16 that hold: read() never raises, and whatever is not a
\* complete JSON document reads as the empty mapping
C16_NoRaise ==
    lastOp.op = "read" =>
        /\ lastOp.ok
        /\ (~HoldsDocument /\ confFile.content # <<"[", "]">>) => lastOp.val = <<>>

\* C19: all_properties is the names with a _default_<name> handler and the
\* keys of the plain store, and get_string returns a value for each of them,
\* in every configuration, a new one with an empty defaults resource
\* included.
C19_ListingTotal ==
    lastOp.op = "get_all" =>
        /\ lastOp.all_properties = {"basejail", "clonejail", "jail_zfs"} \cup DOMAIN data
        /\ \A key \in lastOp.all_properties : lastOp.values[key].ok

\* what holds of the listing: the names are those of the handlers and of the
\* plain store, and, where the package has the attribute libiocage.helpers,
\* get_string returns for every key of the plain store
C19_ListingNames ==
    lastOp.op = "get_all" =>
        /\ lastOp.all_properties = {"basejail", "clonejail", "jail_zfs"} \cup DOMAIN data
        /\ helpersAttr => \A key \in DOMAIN data : lastOp.values[key].ok

\* the listing of a new configuration fails in both builds when the defaults
\* resource is empty
C19_FreshListingFails ==
    (lastOp.op = "get_all" /\ defaults = EmptyData /\ "basejail" \notin DOMAIN data)
        => ~lastOp.values["basejail"].ok

---------------------------------------------------------------------------
(* Properties of the mount table's text *)

\* an entry whose comment, if any, holds no blank and no "#" and is not the
\* reserved one (the six other fields are words in every entry)
RoundTrippable(line) ==
    \/ line.comment = NoComment
    \/ /\ Range(line.comment[1]) \cap {" ", "\t", "#"} = {}
       /\ line.comment # <<AUTO_COMMENT_IDENTIFIER>>

\* the line of text of an entry: six fields separated by tabs, then " # "
\* and the comment if there is one
Rendering(line) ==
    <<line.source, "\t", line.destination, "\t", line.type, "\t", line.options,
      "\t", line.dump, "\t", line.passnum>>
    \o (IF line.comment = NoComment THEN <<>> ELSE <<" ", "#", " ">> \o line.comment[1])

---------------------------------------------------------------------------
(* Properties of the jail_zfs guard *)

\* the plain store holds a jail_zfs that reads as false
ExplicitlyDisabled ==
    /\ "jail_zfs" \in DOMAIN data
    /\ parse_user_input(data["jail_zfs"]) = FalseV

\* the plain store names at least one dataset in jail_zfs_dataset
DatasetsNamed ==
    /\ "jail_zfs_dataset" \in DOMAIN data
    /\ SplitWords(data["jail_zfs_dataset"][2]) # <<>>

\* C21: config["jail_zfs"] raises JailConigZFSIsNotAllowed whenever jail_zfs
\* is explicitly disabled while jail_zfs_dataset names a dataset; when
\* jail_zfs is not set it returns True if jail_zfs_dataset names a dataset
\* and False otherwise, and does not raise.
C21_JailZfsGuard ==
    (lastOp.op = "get" /\ lastOp.key = "jail_zfs") =>
        /\ (ExplicitlyDisabled /\ DatasetsNamed) =>
               (~lastOp.ok /\ lastOp.err = "JailConigZFSIsNotAllowed")
        /\ "jail_zfs" \notin DOMAIN data =>
               /\ lastOp.ok
               /\ lastOp.val = (IF DatasetsNamed THEN TrueV ELSE FalseV)

\* what holds of the guard: an unset jail_zfs reads as whether a dataset is
\* named, from the getter, and a read of jail_zfs never raises the guard's
\* error
C21_UnsetFollowsDatasets ==
    (lastOp.op = "get" /\ lastOp.key = "jail_zfs") =>
        /\ "jail_zfs" \notin DOMAIN data =>
               /\ lastOp.ok
               /\ lastOp.tier = "getter"
               /\ lastOp.val = (IF DatasetsNamed THEN TrueV ELSE FalseV)
        /\ ~lastOp.ok => lastOp.err # "JailConigZFSIsNotAllowed"

\* the guard is passed over: with jail_zfs disabled and a dataset named, the
\* read answers with the string of the plain store
C21_GuardSwallowed ==
    (lastOp.op = "get" /\ lastOp.key = "jail_zfs" /\ ExplicitlyDisabled /\ DatasetsNamed)
        => /\ lastOp.ok
           /\ lastOp.tier = "plain"
           /\ lastOp.val = data["jail_zfs"]

---------------------------------------------------------------------------
(* Properties of resources *)

\* the encoding the priority of the claim gives for a storage
PriorityEncoding(z) ==
    IF DEFAULT_JSON_FILE \in z.files THEN "json"
    ELSE IF DEFAULT_LEGACY_FILE \in z.files THEN "legacy"
    ELSE IF \E p \in z.properties : p[1] = "org.freebsd.iocage:" THEN "zfs"
    ELSE "json"

\* C17: a resource constructed with config_type "auto" (or with the name of
\* an encoding) is constructed, and the probe of its storage gives the name
\* of one of the three encodings: json when config.json is there, else
\* legacy when config is there, else zfs when a property has the prefix
\* org.freebsd.iocage:, else json.
C17_DetectionPriority ==
    /\ lastOp.op = "Resource" => lastOp.ok
    /\ (lastOp.op = "_find_config_type" /\ ~zfs.denied /\ ResourceName \in zfs.datasets)
           => /\ lastOp.ok
              /\ lastOp.val = Str(PriorityEncoding(zfs))

\* what holds of the probe: its result denotes the encoding of the priority,
\* as an index into CONFIG_TYPES when a file or a property was found and as
\* a name when nothing was
C17_ProbeOrder ==
    (lastOp.op = "_find_config_type" /\ ~zfs.denied /\ ResourceName \in zfs.datasets)
        => /\ lastOp.ok
           /\ \/ /\ lastOp.val[1] = "int"
                 /\ CONFIG_TYPES[lastOp.val[2] + 1] = PriorityEncoding(zfs)
                 /\ zfs.files # {} \/ \E p \in zfs.properties : p[1] = "org.freebsd.iocage:"
              \/ /\ lastOp.val = Str("json")
                 /\ zfs.files = {}
                 /\ ~\E p \in zfs.properties : p[1] = "org.freebsd.iocage:"

\* C18: resolving a name whose storage is absent and whose first segment is
\* no pool fails with StoreNotFound and leaves the storage as it was;
\* resolving a name whose storage exists leaves the storage as it was; an
\* error of the storage layer during the lookup is the error the caller gets.
C18_ResolveFailures ==
    lastOp.op = "getExistingOrNewResource" =>
        /\ lastOp.before.denied =>
               (~lastOp.ok /\ lastOp.err = "ZFSException: permission denied")
        /\ (/\ ~lastOp.before.denied
            /\ lastOp.dataset_name \notin lastOp.before.datasets
            /\ lastOp.dataset_name[1] \notin lastOp.before.pools)
               => (~lastOp.ok /\ lastOp.err = "StoreNotFound" /\ zfs = lastOp.before)
        /\ (~lastOp.before.denied /\ lastOp.dataset_name \in lastOp.before.datasets)
               => zfs = lastOp.before

\* what holds of the two functions: they raise NameError whatever the storage
\* holds, and create and mount nothing
C18_NothingCreated ==
    lastOp.op \in {"getExistingOrNewResource", "createNewResource"} =>
        /\ ~lastOp.ok
        /\ lastOp.err = "NameError"
        /\ zfs = lastOp.before

====
